---- MODULE Spec2Model ----
(***************************************************************************)
(* Model of product_search_full.py (Decor-FLTC, product searching phase):  *)
(* query expansion, per-(query, site) collection, deduplication, price and *)
(* currency parsing, rate cache, conversion to INR, filtering and ranking. *)
(*                                                                         *)
(* Conventions.                                                            *)
(*  - A Python str that the code inspects character by character (price    *)
(*    text, item name, query, language-model reply) is a sequence of       *)
(*    one-character strings.  Characters outside ASCII are written by      *)
(*    name: "rupee" (U+20B9), "pound" (U+00A3), "euro" (U+20AC), "bullet"  *)
(*    (U+2022), "nbsp" (U+00A0), "zwsp" (U+200B).                          *)
(*  - A url, href or title is a sequence of tokens (scheme, host, path or  *)
(*    text chunk); the code only tests its first character, its host and   *)
(*    equality.                                                            *)
(*  - None and the empty string are both falsy at every place the code     *)
(*    tests them; an optional str is <<>> when None or empty, an optional  *)
(*    currency code is "" when None.                                       *)
(*  - A float is a decimal [m, e] standing for m / 10^e, normalised;       *)
(*    NoneNum is Python's None for an amount, a rate or price_inr.         *)
(***************************************************************************)
EXTENDS Integers, Sequences, FiniteSets, TLC

VARIABLES
    parse_call,      \* one call of extract_price_and_currency
    expand_call,     \* one call of expand_queries
    rates_call,      \* one call of fetch_rates_for_currencies
    pc,              \* position of product_search_pipeline
    item_name, min_inr, max_inr,   \* its arguments
    api_key, llm,    \* OPENAI_API_KEY set?, what the language model does
    queries, queries_to_use,
    cell,            \* index of the next (query, site) cell
    cellLog,         \* what each searched cell's adapter did (history)
    all_candidates,
    clock,           \* last reading of time.time()
    candidates,      \* list(uniq.values())
    pending,         \* currencies still to look up
    lookupLog,       \* what each rate lookup did (history)
    rates, rates_cache,
    parsed, results

pipe_vars == <<pc, item_name, min_inr, max_inr, api_key, llm, queries,
               queries_to_use, cell, cellLog, all_candidates, clock,
               candidates, pending, lookupLog, rates, rates_cache, parsed,
               results>>
vars == <<parse_call, expand_call, rates_call, pipe_vars>>

(***************************************************************************)
(* Bounds of the model.                                                    *)
(***************************************************************************)
MaxTextLen == 3      \* generated price texts have at most this many characters
MaxVariantsBound == 7  \* expand_queries is called with max_variants in 0..this
MaxCurrencies == 3   \* a call of fetch_rates_for_currencies gets at most this many codes

(***************************************************************************)
(* Characters and strings.                                                 *)
(***************************************************************************)
Digits == {"0", "1", "2", "3", "4", "5", "6", "7", "8", "9"}

IsDigit(c) == c \in Digits

DigitVal(c) ==
    CASE c = "0" -> 0 [] c = "1" -> 1 [] c = "2" -> 2 [] c = "3" -> 3
      [] c = "4" -> 4 [] c = "5" -> 5 [] c = "6" -> 6 [] c = "7" -> 7
      [] c = "8" -> 8 [] c = "9" -> 9

RECURSIVE LStripSet(_, _)
LStripSet(s, cs) ==
    IF s # <<>> /\ Head(s) \in cs THEN LStripSet(Tail(s), cs) ELSE s

RECURSIVE RStripSet(_, _)
RStripSet(s, cs) ==
    IF s # <<>> /\ s[Len(s)] \in cs
    THEN RStripSet(SubSeq(s, 1, Len(s) - 1), cs) ELSE s

\* s.strip(chars)
StripSet(s, cs) == RStripSet(LStripSet(s, cs), cs)

\* s.strip()
Strip(s) == StripSet(s, {" ", "\n", "nbsp"})

\* sub in s
Contains(s, sub) ==
    \E i \in 1..(Len(s) - Len(sub) + 1) : SubSeq(s, i, i + Len(sub) - 1) = sub

RECURSIVE ReplaceChar(_, _, _)
\* s.replace(c, r) for a one-character c and a replacement string r
ReplaceChar(s, c, r) ==
    IF s = <<>> THEN <<>>
    ELSE (IF Head(s) = c THEN r ELSE <<Head(s)>>) \o ReplaceChar(Tail(s), c, r)

(***************************************************************************)
(* Floats as normalised decimals.                                          *)
(***************************************************************************)
NoneNum == [m |-> -1, e |-> 0]

RECURSIVE Pow10(_)
Pow10(n) == IF n = 0 THEN 1 ELSE 10 * Pow10(n - 1)

RECURSIVE Norm(_)
Norm(d) ==
    IF d.e > 0 /\ d.m % 10 = 0 THEN Norm([m |-> d.m \div 10, e |-> d.e - 1])
    ELSE d

Dec(m, e) == Norm([m |-> m, e |-> e])

DecLess(a, b) == a.m * Pow10(b.e) < b.m * Pow10(a.e)

DecLeq(a, b) == a.m * Pow10(b.e) <= b.m * Pow10(a.e)

DecMul(a, b) == Dec(a.m * b.m, a.e + b.e)

\* round(x, 2): to the nearest hundredth, ties to even
Round2(d) ==
    IF d.e <= 2 THEN d
    ELSE LET p == Pow10(d.e - 2)
             q == d.m \div p
             r == d.m % p
         IN  Dec(IF 2 * r > p \/ (2 * r = p /\ q % 2 = 1) THEN q + 1 ELSE q, 2)

(***************************************************************************)
(* Configuration tables.                                                   *)
(***************************************************************************)
MAX_RESULTS_PER_SITE == 6

\* max_variants of the pipeline's call of expand_queries (line 431)
PIPELINE_MAX_VARIANTS == 6

\* the pipeline searches queries[:3] (line 435)
QUERIES_USED == 3

\* host -> currency, "" for a host the table does not hold
DOMAIN_CURRENCY_HINT(host) ==
    CASE host \in {"amazon.in", "www.amazon.in"} -> "INR"
      [] host \in {"amazon.com", "www.amazon.com"} -> "USD"
      [] host \in {"flipkart.com", "www.flipkart.com"} -> "INR"
      [] OTHER -> ""

\* in the dict's insertion order, which is the order the loop tries them in
SYMBOL_TO_CURRENCY == <<
    [sym |-> <<"rupee">>, code |-> "INR"],
    [sym |-> <<"R", "s">>, code |-> "INR"],
    [sym |-> <<"I", "N", "R">>, code |-> "INR"],
    [sym |-> <<"$">>, code |-> "USD"],
    [sym |-> <<"U", "S", "D">>, code |-> "USD"],
    [sym |-> <<"U", "S", "$">>, code |-> "USD"],
    [sym |-> <<"pound">>, code |-> "GBP"],
    [sym |-> <<"G", "B", "P">>, code |-> "GBP"],
    [sym |-> <<"euro">>, code |-> "EUR"],
    [sym |-> <<"E", "U", "R">>, code |-> "EUR"] >>

(***************************************************************************)
(* extract_price_and_currency                                              *)
(***************************************************************************)
RECURSIVE FirstSymbolCode(_, _)
\* the for loop over SYMBOL_TO_CURRENCY.items(), from entry k on
FirstSymbolCode(s, k) ==
    IF k > Len(SYMBOL_TO_CURRENCY) THEN ""
    ELSE IF Contains(s, SYMBOL_TO_CURRENCY[k].sym)
         THEN SYMBOL_TO_CURRENCY[k].code
         ELSE FirstSymbolCode(s, k + 1)

\* a faulty variant: the domain hint wins over a symbol in the text
ResolveCurrency_HintFirst(s, site_hint_currency) ==
    IF site_hint_currency # "" THEN site_hint_currency
    ELSE FirstSymbolCode(s, 1)

\* cur after lines 182-188
ResolveCurrency(s, site_hint_currency) ==
    LET cur == FirstSymbolCode(s, 1)
    IN  IF cur = "" /\ site_hint_currency # "" THEN site_hint_currency
        ELSE cur

RECURSIVE RunEnd(_, _, _)
\* last index of the run of characters of cs that starts at i (i - 1: none)
RunEnd(s, i, cs) ==
    IF i <= Len(s) /\ s[i] \in cs THEN RunEnd(s, i + 1, cs) ELSE i - 1

\* re.search(r'(\d{1,3}(?:[,\d]{0,3})*(?:\.\d+)?)', s): the leftmost match
\* starts at the first digit, takes the whole run of digits and commas, and
\* then a "." with the digits after it when there is at least one.
\* <<>> when s holds no digit (then the second pattern matches nothing either)
NumericToken(s) ==
    IF \A i \in 1..Len(s) : ~IsDigit(s[i]) THEN <<>>
    ELSE LET i == CHOOSE k \in 1..Len(s) :
                      IsDigit(s[k]) /\ \A j \in 1..(k - 1) : ~IsDigit(s[j])
             j == RunEnd(s, i, Digits \cup {","})
             f == IF j + 2 <= Len(s) /\ s[j + 1] = "." /\ IsDigit(s[j + 2])
                  THEN RunEnd(s, j + 2, Digits) ELSE j
         IN  SubSeq(s, i, f)

RECURSIVE DigitsValue(_, _)
DigitsValue(ds, acc) ==
    IF ds = <<>> THEN acc ELSE DigitsValue(Tail(ds), 10 * acc + DigitVal(Head(ds)))

\* float(num_txt) for digits with an optional fraction
ParseFloat(num_txt) ==
    LET dots == {i \in 1..Len(num_txt) : num_txt[i] = "."}
    IN  IF dots = {} THEN Dec(DigitsValue(num_txt, 0), 0)
        ELSE LET d == CHOOSE i \in dots : TRUE
             IN  Dec(DigitsValue(SubSeq(num_txt, 1, d - 1)
                                 \o SubSeq(num_txt, d + 1, Len(num_txt)), 0),
                     Len(num_txt) - d)

extract_price_and_currency(price_str, site_hint_currency) ==
    IF price_str = <<>> THEN [amount |-> NoneNum, cur |-> "", raw |-> <<>>]
    ELSE LET s == ReplaceChar(ReplaceChar(Strip(price_str), "nbsp", <<" ">>),
                              "zwsp", <<>>)
             cur == ResolveCurrency(s, site_hint_currency)
             tok == NumericToken(s)
         IN  IF tok = <<>> THEN [amount |-> NoneNum, cur |-> cur, raw |-> s]
             ELSE [amount |-> ParseFloat(ReplaceChar(tok, ",", <<>>)),
                   cur |-> cur, raw |-> s]

(***************************************************************************)
(* Calls of extract_price_and_currency on generated and on fixed inputs.   *)
(***************************************************************************)
PriceAlphabet == {"rupee", "$", "9", ",", ".", " "}

RECURSIVE StringsUpTo(_, _)
StringsUpTo(alphabet, n) ==
    IF n = 0 THEN {<<>>}
    ELSE LET shorter == StringsUpTo(alphabet, n - 1)
         IN  shorter \cup {Append(s, c) : s \in shorter, c \in alphabet}

FixedPriceTexts == {
    <<"rupee", "1", ",", "2", "9", "9">>,
    <<"4", "9", "9">>,
    <<"R", "s", ".", " ", "4", "5", "0", ".", "5", "0">>,
    <<"U", "S", "D", " ", "1", "2">>,
    <<"$", "5", " ", "I", "N", "R">>,
    <<"nbsp", "euro", "3", "zwsp", "0">>,
    <<"N", "/", "A">> }

PriceTexts == FixedPriceTexts \cup StringsUpTo(PriceAlphabet, MaxTextLen)

Hints == {"", "INR", "USD"}

ParseInit ==
    \E t \in PriceTexts, h \in Hints :
        parse_call = [pc |-> "call", price_str |-> t, site_hint_currency |-> h,
                      result |-> [amount |-> NoneNum, cur |-> "", raw |-> <<>>]]

ParseReturn ==
    /\ parse_call.pc = "call"
    /\ parse_call' = [parse_call EXCEPT
           !.pc = "returned",
           !.result = extract_price_and_currency(parse_call.price_str,
                                                 parse_call.site_hint_currency)]
    /\ UNCHANGED <<expand_call, rates_call, pipe_vars>>

(***************************************************************************)
(* Query expansion: expand_queries_openai, expand_queries_fallback,        *)
(* expand_queries.                                                         *)
(***************************************************************************)
Uppers == <<"A", "B", "C", "D", "E", "F", "G", "H", "I", "J", "K", "L", "M",
            "N", "O", "P", "Q", "R", "S", "T", "U", "V", "W", "X", "Y", "Z">>

Lowers == <<"a", "b", "c", "d", "e", "f", "g", "h", "i", "j", "k", "l", "m",
            "n", "o", "p", "q", "r", "s", "t", "u", "v", "w", "x", "y", "z">>

LowerChar(c) ==
    IF \E i \in 1..26 : Uppers[i] = c
    THEN Lowers[CHOOSE i \in 1..26 : Uppers[i] = c] ELSE c

\* s.lower()
Lower(s) == [i \in 1..Len(s) |-> LowerChar(s[i])]

RECURSIVE ReplaceAll(_, _, _)
\* s.replace(w, r) for a non-empty w: non-overlapping, left to right
ReplaceAll(s, w, r) ==
    IF Len(s) < Len(w) THEN s
    ELSE IF SubSeq(s, 1, Len(w)) = w
         THEN r \o ReplaceAll(SubSeq(s, Len(w) + 1, Len(s)), w, r)
         ELSE <<Head(s)>> \o ReplaceAll(Tail(s), w, r)

RECURSIVE SplitOn(_, _, _)
\* the pieces of s between separators of seps, empty pieces included;
\* piece is the piece being read
SplitOn(s, seps, piece) ==
    IF s = <<>> THEN <<piece>>
    ELSE IF Head(s) \in seps THEN <<piece>> \o SplitOn(Tail(s), seps, <<>>)
         ELSE SplitOn(Tail(s), seps, Append(piece, Head(s)))

RECURSIVE Join(_, _)
\* sep.join(pieces)
Join(pieces, sep) ==
    IF pieces = <<>> THEN <<>>
    ELSE IF Len(pieces) = 1 THEN pieces[1]
         ELSE pieces[1] \o sep \o Join(Tail(pieces), sep)

\* the elements of a list, as a set
Range(f) == {f[i] : i \in 1..Len(f)}

\* " ".join(q.split())
NormSpaces(q) ==
    Join(SelectSeq(SplitOn(q, {" ", "\n", "nbsp"}, <<>>), LAMBDA w : w # <<>>),
         <<" ">>)

SUFFIXES == <<
    <<"f", "o", "r", " ", "h", "o", "m", "e", " ", "d", "e", "c", "o", "r">>,
    <<"f", "o", "r", " ", "l", "i", "v", "i", "n", "g", " ", "r", "o", "o", "m">>,
    <<"d", "e", "c", "o", "r", "a", "t", "i", "v", "e">>,
    <<"h", "a", "n", "d", "m", "a", "d", "e">>,
    <<"r", "u", "s", "t", "i", "c">>,
    <<"v", "i", "n", "t", "a", "g", "e">>,
    <<"m", "o", "d", "e", "r", "n">> >>

\* the synonyms dict, one entry per (word, synonym), in iteration order
SYNONYMS == <<
    [w |-> <<"s", "o", "f", "a">>, s |-> <<"c", "o", "u", "c", "h">>],
    [w |-> <<"r", "u", "g">>, s |-> <<"c", "a", "r", "p", "e", "t">>],
    [w |-> <<"m", "i", "r", "r", "o", "r">>,
     s |-> <<"w", "a", "l", "l", " ", "m", "i", "r", "r", "o", "r">>],
    [w |-> <<"l", "a", "m", "p">>,
     s |-> <<"t", "a", "b", "l", "e", " ", "l", "a", "m", "p">>],
    [w |-> <<"l", "a", "m", "p">>,
     s |-> <<"f", "l", "o", "o", "r", " ", "l", "a", "m", "p">>],
    [w |-> <<"c", "l", "o", "c", "k">>,
     s |-> <<"w", "a", "l", "l", " ", "c", "l", "o", "c", "k">>],
    [w |-> <<"c", "l", "o", "c", "k">>,
     s |-> <<"d", "e", "c", "o", "r", "a", "t", "i", "v", "e", " ", "c", "l",
             "o", "c", "k">>] >>

RECURSIVE SynonymVariants(_, _)
\* lines 142-145, from entry k of SYNONYMS on
SynonymVariants(base, k) ==
    IF k > Len(SYNONYMS) THEN <<>>
    ELSE (IF Contains(Lower(base), SYNONYMS[k].w)
          THEN <<ReplaceAll(Lower(base), SYNONYMS[k].w, SYNONYMS[k].s)>>
          ELSE <<>>) \o SynonymVariants(base, k + 1)

RECURSIVE DedupeTop(_, _, _, _)
\* the dedupe loops (lines 112-119 with skip_empty, lines 147-155 without):
\* out after visiting lines[k..]; the length test follows every element,
\* appended or not
DedupeTop(lines, k, out, opts) ==
    IF k > Len(lines) THEN out
    ELSE LET l == IF opts.norm THEN NormSpaces(lines[k]) ELSE lines[k]
             out2 == IF (opts.skip_empty => l # <<>>) /\ l \notin Range(out)
                     THEN Append(out, l) ELSE out
         IN  IF Len(out2) >= opts.max_variants THEN out2
             ELSE DedupeTop(lines, k + 1, out2, opts)

expand_queries_fallback(name, max_variants) ==
    LET base == Strip(name)
        variants == <<base>>
                    \o [i \in 1..Len(SUFFIXES) |-> base \o <<" ">> \o SUFFIXES[i]]
                    \o SynonymVariants(base, 1)
    IN  DedupeTop(variants, 1, <<>>,
                  [norm |-> TRUE, skip_empty |-> FALSE,
                   max_variants |-> max_variants])

LineStripChars == {" ", "-", "bullet", "."} \cup Digits

\* lines 104-120, on the reply text of the language model
expand_queries_openai(text, max_variants) ==
    LET raw == SelectSeq(SplitOn(text, {"\n"}, <<>>),
                         LAMBDA line : Strip(line) # <<>>)
        lines == [i \in 1..Len(raw) |-> Strip(StripSet(raw[i], LineStripChars))]
        parts == IF Len(lines) = 1
                 THEN LET ps == SplitOn(lines[1], {",", "\n", ";"}, <<>>)
                          kept == SelectSeq(ps, LAMBDA p : Strip(p) # <<>>)
                      IN  [i \in 1..Len(kept) |-> Strip(kept[i])]
                 ELSE <<>>
        final == IF Len(lines) = 1 /\ Len(parts) > 1 THEN parts ELSE lines
    IN  DedupeTop(final, 1, <<>>,
                  [norm |-> FALSE, skip_empty |-> TRUE,
                   max_variants |-> max_variants])

\* reply: [ok, text]; ok is FALSE when both client calls raise (no package,
\* transport error, a reply without text)
expand_queries(name, max_variants, key, reply) ==
    IF key /\ reply.ok THEN expand_queries_openai(reply.text, max_variants)
    ELSE expand_queries_fallback(name, max_variants)

(***************************************************************************)
(* Calls of expand_queries.                                                *)
(***************************************************************************)
ItemNames == {
    <<"w", "a", "l", "l", " ", "c", "l", "o", "c", "k">>,
    <<" ", "S", "o", "f", "a", " ">>,
    <<"r", "u", "g", " ", " ", "l", "a", "m", "p">>,
    <<"v", "a", "s", "e">>,
    <<" ">>,
    <<>> }

LLMFailure == [ok |-> FALSE, text |-> <<>>]

LLMReplies == {
    [ok |-> TRUE, text |->
        <<"1", ".", " ", "w", "a", "l", "l", " ", "c", "l", "o", "c", "k", "\n",
          "2", ".", " ", "w", "a", "l", "l", " ", "c", "l", "o", "c", "k", "\n",
          "-", " ", "v", "i", "n", "t", "a", "g", "e", " ", "c", "l", "o", "c",
          "k">>],
    [ok |-> TRUE, text |->
        <<"o", "a", "k", " ", "c", "l", "o", "c", "k", ",", " ", "w", "a", "l",
          "l", " ", "c", "l", "o", "c", "k", ";", " ">>],
    [ok |-> TRUE, text |-> <<"1", "2", ".", "\n", "\n">>],
    [ok |-> TRUE, text |->
        <<"W", "a", "l", "l", " ", "C", "l", "o", "c", "k", "\n", "bullet", " ",
          "w", "a", "l", "l", " ", " ", "c", "l", "o", "c", "k", " ", "2", "4">>] }

ExpandInit ==
    \E n \in ItemNames, mv \in 0..MaxVariantsBound, k \in BOOLEAN,
       r \in LLMReplies \cup {LLMFailure} :
        expand_call = [pc |-> "call", item_name |-> n, max_variants |-> mv,
                       api_key |-> k, reply |-> r, result |-> <<>>]

ExpandReturn ==
    /\ expand_call.pc = "call"
    /\ expand_call' = [expand_call EXCEPT
           !.pc = "returned",
           !.result = expand_queries(expand_call.item_name,
                                     expand_call.max_variants,
                                     expand_call.api_key, expand_call.reply)]
    /\ UNCHANGED <<parse_call, rates_call, pipe_vars>>

(***************************************************************************)
(* Site adapters: the candidates search_amazon_in and search_flipkart      *)
(* build from the page the browser returned.  A page is what the selectors *)
(* find in it, in document order.                                          *)
(***************************************************************************)
Min(a, b) == IF a <= b THEN a ELSE b

\* s[:n]
Take(s, n) == SubSeq(s, 1, Min(Len(s), n))

\* quote_plus(query), for queries of letters, digits and spaces
QuotePlus(query) == ReplaceChar(query, " ", <<"+">>)

AmazonSearchUrl(query) ==
    <<"https://", "www.amazon.in", "/", "s?k=">> \o QuotePlus(query)

FlipkartSearchUrl(query) ==
    <<"https://", "www.flipkart.com", "/", "search?q=">> \o QuotePlus(query)

\* href.startswith("/")
StartsWithSlash(href) == href # <<>> /\ Head(href) = "/"

\* one card of div.s-main-slot: [title, href, price, rating], each <<>> when
\* the element (or the attribute) is missing
AmazonCandidate(query, c) ==
    [platform |-> "Amazon.in",
     title |-> c.title,
     url |-> IF StartsWithSlash(c.href)
             THEN <<"https://", "www.amazon.in">> \o c.href ELSE c.href,
     price_text |-> c.price,
     rating_text |-> c.rating,
     source |-> AmazonSearchUrl(query)]

search_amazon_in(query, cards, max_results) ==
    LET top == Take(cards, max_results)
    IN  [i \in 1..Len(top) |-> AmazonCandidate(query, top[i])]

\* len(href) and the substring tests on href, for the tokens of the model
TokenLen(tok) ==
    CASE tok = "/" -> 1
      [] tok = "help" -> 4
      [] tok = "oak-clock/p/itm1?pid=OAK0000000001" -> 34
      [] tok = "jute-rug/p/itm2?pid=RUG0000000002" -> 33
      [] tok = "brass-lamp/p/itm3?pid=LMP0000000003" -> 35
      [] tok = "https://" -> 8
      [] OTHER -> 16

RECURSIVE HrefLen(_)
HrefLen(href) ==
    IF href = <<>> THEN 0 ELSE TokenLen(Head(href)) + HrefLen(Tail(href))

\* "/p/" in href or "itm" in href
LooksLikeProduct(href) ==
    \E i \in 1..Len(href) :
        href[i] \in {"oak-clock/p/itm1?pid=OAK0000000001",
                     "jute-rug/p/itm2?pid=RUG0000000002",
                     "brass-lamp/p/itm3?pid=LMP0000000003"}

FlipkartUrl(href) ==
    IF StartsWithSlash(href)
    THEN <<"https://", "www.flipkart.com">> \o href ELSE href

RECURSIVE FlipkartPrimary(_, _, _, _, _, _)
\* lines 311-347 over anchors[k..]: an anchor is [has_title, title, href,
\* text, price], price being the text of the first div or span holding a
\* rupee sign among the anchor's four nearest ancestors (<<>>: none)
FlipkartPrimary(query, anchors, k, seen, found, max_results) ==
    IF k > Len(anchors) THEN <<>>
    ELSE LET a == anchors[k]
             title == IF a.title # <<>> THEN a.title ELSE a.text
             skip == \/ a.href = <<>> \/ a.href \in seen
                     \/ title = <<>>
                     \/ (StartsWithSlash(a.href) /\ HrefLen(a.href) < 30)
         IN  IF skip
             THEN FlipkartPrimary(query, anchors, k + 1, seen, found, max_results)
             ELSE <<[platform |-> "Flipkart", title |-> title,
                     url |-> FlipkartUrl(a.href), price_text |-> a.price,
                     rating_text |-> <<>>,
                     source |-> FlipkartSearchUrl(query)]>>
                  \o (IF found + 1 >= max_results THEN <<>>
                      ELSE FlipkartPrimary(query, anchors, k + 1,
                                           seen \cup {a.href}, found + 1,
                                           max_results))

RECURSIVE FlipkartSecondary(_, _, _, _, _)
\* lines 350-367 over anchors[k..], n results so far; titles are shorter
\* than the 200 characters text[:200] keeps
FlipkartSecondary(query, anchors, k, n, max_results) ==
    IF k > Len(anchors) THEN <<>>
    ELSE LET a == anchors[k]
         IN  IF a.href = <<>> \/ a.text = <<>>
             THEN FlipkartSecondary(query, anchors, k + 1, n, max_results)
             ELSE LET hit == LooksLikeProduct(a.href)
                      n2 == IF hit THEN n + 1 ELSE n
                  IN  (IF hit
                       THEN <<[platform |-> "Flipkart", title |-> a.text,
                               url |-> FlipkartUrl(a.href),
                               price_text |-> <<>>, rating_text |-> <<>>,
                               source |-> FlipkartSearchUrl(query)]>>
                       ELSE <<>>)
                      \o (IF n2 >= max_results THEN <<>>
                          ELSE FlipkartSecondary(query, anchors, k + 1, n2,
                                                 max_results))

search_flipkart(query, anchors, max_results) ==
    LET titled == SelectSeq(anchors, LAMBDA a : a.has_title)
        primary == FlipkartPrimary(query, Take(titled, max_results * 3), 1,
                                   {}, 0, max_results)
        found == IF primary # <<>> THEN primary
                 ELSE FlipkartSecondary(query, Take(anchors, max_results * 5),
                                        1, 0, max_results)
    IN  Take(found, max_results)

(***************************************************************************)
(* Orchestration utilities.                                                *)
(***************************************************************************)
\* urlparse(url).hostname or "": the token after the scheme
Hostname(url) ==
    IF Len(url) >= 2 /\ url[1] \in {"https://", "http://"} THEN url[2] ELSE ""

detect_currency_from_domain(url) == DOMAIN_CURRENCY_HINT(Hostname(url))

\* a or b, for optional strings
Or(a, b) == IF a # <<>> THEN a ELSE b

\* cur.upper() == "INR", for the codes of the tables, which are upper case
IsINR(cur) == cur = "INR"

\* d.get(k), NoneNum when k is no key of d
Get(d, k) == IF k \in DOMAIN d THEN d[k] ELSE NoneNum

\* price_inr of lines 392-401
PriceInr(amount, currency, cache) ==
    IF amount = NoneNum THEN NoneNum
    ELSE IF currency = "" \/ IsINR(currency) THEN amount
         ELSE LET rate == Get(cache, currency)
              IN  IF rate # NoneNum /\ rate.m # 0
                  THEN Round2(DecMul(amount, rate)) ELSE NoneNum

\* one iteration of the loop of unify_results (price_inr_str, the display
\* string of price_inr, is left out)
Unify(p, cache) ==
    LET site_hint == detect_currency_from_domain(Or(p.url, p.source))
        e == extract_price_and_currency(p.price_text, site_hint)
        currency == IF e.cur = "" /\ site_hint # "" THEN site_hint ELSE e.cur
    IN  [platform |-> p.platform, title |-> p.title, url |-> p.url,
         price_text |-> p.price_text, rating_text |-> p.rating_text,
         source |-> p.source,
         amount |-> e.amount, currency |-> currency, raw_price_text |-> e.raw,
         price_inr |-> PriceInr(e.amount, currency, cache)]

unify_results(cands, cache) == [i \in 1..Len(cands) |-> Unify(cands[i], cache)]

\* a faulty variant: both comparisons exclusive
PassesFilter_Exclusive(p, lo, hi) ==
    /\ p.price_inr # NoneNum
    /\ (lo # NoneNum => DecLess(lo, p.price_inr))
    /\ (hi # NoneNum => DecLess(p.price_inr, hi))

\* the candidate reaches out.append(p) (lines 417-423)
PassesFilter(p, lo, hi) ==
    /\ p.price_inr # NoneNum
    /\ ~(lo # NoneNum /\ DecLess(p.price_inr, lo))
    /\ ~(hi # NoneNum /\ DecLess(hi, p.price_inr))

apply_price_filter(parsed_results, lo, hi) ==
    SelectSeq(parsed_results, LAMBDA p : PassesFilter(p, lo, hi))

\* key(x) < key(y) for the sort key of line 477: a missing price counts as
\* 1e12, which is above every price of the model
KeyLess(x, y) ==
    IF x.price_inr = NoneNum THEN FALSE
    ELSE IF y.price_inr = NoneNum THEN TRUE
    ELSE DecLess(x.price_inr, y.price_inr)

\* a faulty variant: an element goes before the elements of equal key
InsertSorted_Unstable(sorted, x) ==
    LET n == Cardinality({i \in 1..Len(sorted) : KeyLess(sorted[i], x)})
    IN  SubSeq(sorted, 1, n) \o <<x>> \o SubSeq(sorted, n + 1, Len(sorted))

\* x goes after every element whose key is not greater: sorted() is stable
InsertSorted(sorted, x) ==
    LET n == Cardinality({i \in 1..Len(sorted) : ~KeyLess(x, sorted[i])})
    IN  SubSeq(sorted, 1, n) \o <<x>> \o SubSeq(sorted, n + 1, Len(sorted))

RECURSIVE SortedByPrice(_)
\* sorted(filtered, key=...)
SortedByPrice(list) ==
    IF list = <<>> THEN <<>>
    ELSE InsertSorted(SortedByPrice(SubSeq(list, 1, Len(list) - 1)),
                      list[Len(list)])

(***************************************************************************)
(* Deduplication (lines 452-458).  time.time() is read only for a          *)
(* candidate with neither url nor title; a reading repeats the previous    *)
(* one or is later.                                                        *)
(***************************************************************************)
ClockReadings(clk) == IF clk = 0 THEN {1} ELSE {clk, clk + 1}

RECURSIVE DedupeRuns(_, _, _, _, _)
\* every [candidates, clock] the loop can end with, from all[k] on, with the
\* dict's keys, its values in insertion order, and the last clock reading
DedupeRuns(all, k, keys, uniq, clk) ==
    IF k > Len(all) THEN {[candidates |-> uniq, clock |-> clk]}
    ELSE LET cand == all[k]
             named == Or(cand.url, cand.title)
         IN  IF named # <<>>
             THEN IF named \in keys
                  THEN DedupeRuns(all, k + 1, keys, uniq, clk)
                  ELSE DedupeRuns(all, k + 1, keys \cup {named},
                                  Append(uniq, cand), clk)
             ELSE UNION {
                    IF <<ToString(t)>> \in keys
                    THEN DedupeRuns(all, k + 1, keys, uniq, t)
                    ELSE DedupeRuns(all, k + 1, keys \cup {<<ToString(t)>>},
                                    Append(uniq, cand), t)
                    : t \in ClockReadings(clk) }

\* currencies of lines 461-466
CurrenciesNeeded(cands) ==
    {cur \in {extract_price_and_currency(
                  cands[i].price_text,
                  detect_currency_from_domain(Or(cands[i].url, cands[i].source))
              ).cur : i \in 1..Len(cands)} :
        cur # "" /\ ~IsINR(cur)}

(***************************************************************************)
(* Rate cache: one iteration of the loop of fetch_rates_for_currencies,    *)
(* and lines 469-472.  A lookup is [latest, convert, rate]: what the       *)
(* /latest request does ("error": it raises, "none": no INR rate in the    *)
(* reply, "rate"), what the /convert request does when it is made, and the *)
(* multiplier the service gives.                                           *)
(***************************************************************************)
One == Dec(1, 0)

RateFetched(cur, o) ==
    IF cur = "" \/ IsINR(cur) THEN One
    ELSE IF o.latest = "error" THEN NoneNum
    ELSE IF o.latest = "rate" THEN o.rate
    ELSE IF o.convert = "rate" THEN o.rate
    ELSE NoneNum

\* a faulty variant: a failed lookup leaves 1.0 for the currency
BuildRatesCache_Default(fetched) ==
    [k \in DOMAIN fetched \cup {"INR"} |->
        IF k = "INR" \/ fetched[k] = NoneNum THEN One ELSE fetched[k]]

\* lines 471-472
BuildRatesCache(fetched) ==
    [k \in {c \in DOMAIN fetched : fetched[c] # NoneNum} \cup {"INR"} |->
        IF k = "INR" THEN One ELSE fetched[k]]

(***************************************************************************)
(* The world of a pipeline run: its arguments, the language model, the     *)
(* pages the two sites serve and the exchange-rate service.                *)
(***************************************************************************)
Rupee1299 == <<"rupee", "1", ",", "2", "9", "9">>

AmazonPage == <<
    [title |-> <<"Oak clock">>, href |-> <<"/", "dp/A1">>,
     price |-> Rupee1299, rating |-> <<"4.5 out of 5 stars">>],
    [title |-> <<"amzn.to/x">>, href |-> <<>>,
     price |-> <<"rupee", "5", "0", "0">>, rating |-> <<>>],
    [title |-> <<"Lamp">>, href |-> <<"amzn.to/x">>,
     price |-> <<"$", "5">>, rating |-> <<>>],
    [title |-> <<>>, href |-> <<>>,
     price |-> <<"euro", "3">>, rating |-> <<>>],
    [title |-> <<"Vase">>, href |-> <<"https://", "example.com", "/", "p">>,
     price |-> <<"4", "9", "9">>, rating |-> <<>>],
    [title |-> <<"Mug">>, href |-> <<"https://", "www.amazon.com", "/", "dp/B7">>,
     price |-> <<"1", "2">>, rating |-> <<"4.0 out of 5 stars">>],
    [title |-> <<"Seventh card">>, href |-> <<"/", "dp/A7">>,
     price |-> <<"rupee", "7">>, rating |-> <<>>] >>

FlipkartPage == <<
    [has_title |-> TRUE, title |-> <<"Oak clock">>,
     href |-> <<"/", "oak-clock/p/itm1?pid=OAK0000000001">>,
     text |-> <<"Oak clock">>, price |-> Rupee1299],
    [has_title |-> TRUE, title |-> <<"Help">>, href |-> <<"/", "help">>,
     text |-> <<"Help">>, price |-> <<>>],
    [has_title |-> TRUE, title |-> <<"Oak clock (image)">>,
     href |-> <<"/", "oak-clock/p/itm1?pid=OAK0000000001">>,
     text |-> <<>>, price |-> Rupee1299],
    [has_title |-> TRUE, title |-> <<>>,
     href |-> <<"/", "jute-rug/p/itm2?pid=RUG0000000002">>,
     text |-> <<"Jute rug">>, price |-> <<>>],
    [has_title |-> FALSE, title |-> <<>>, href |-> <<"/", "dp/A1">>,
     text |-> <<"Sponsored">>, price |-> <<>>],
    [has_title |-> TRUE, title |-> <<"Brass lamp">>,
     href |-> <<"/", "brass-lamp/p/itm3?pid=LMP0000000003">>,
     text |-> <<"Brass lamp">>,
     price |-> <<"rupee", "4", "5", "0", ".", "5", "0">>] >>

\* a page without a[title] anchors, for the generic-anchor strategy
FlipkartPlainPage == <<
    [has_title |-> FALSE, title |-> <<>>, href |-> <<"/", "help">>,
     text |-> <<"Help">>, price |-> <<>>],
    [has_title |-> FALSE, title |-> <<>>,
     href |-> <<"/", "oak-clock/p/itm1?pid=OAK0000000001">>,
     text |-> <<"Oak clock, 30 cm">>, price |-> <<>>],
    [has_title |-> FALSE, title |-> <<>>,
     href |-> <<"/", "brass-lamp/p/itm3?pid=LMP0000000003">>,
     text |-> <<>>, price |-> <<>>],
    [has_title |-> FALSE, title |-> <<>>,
     href |-> <<"https://", "www.flipkart.com", "/", "jute-rug/p/itm2?pid=RUG0000000002">>,
     text |-> <<"Jute rug">>, price |-> <<>>] >>

\* what the browser does for one cell: page.goto raises (a timeout), or a
\* page is served
CellOutcomes(site) ==
    {[failed |-> TRUE, page |-> <<>>]}
    \cup {[failed |-> FALSE, page |-> pg] :
            pg \in IF site = "Amazon.in" THEN {AmazonPage}
                   ELSE {FlipkartPage, FlipkartPlainPage}}

ServiceRate(cur) ==
    CASE cur = "USD" -> Dec(8325, 2)
      [] cur = "EUR" -> Dec(905, 1)
      [] OTHER -> Dec(11, 1)

\* the paths through lines 216-231
LookupOutcomes(cur) ==
    {[latest |-> "error", convert |-> "unused", rate |-> ServiceRate(cur)],
     [latest |-> "rate", convert |-> "unused", rate |-> ServiceRate(cur)]}
    \cup {[latest |-> "none", convert |-> c, rate |-> ServiceRate(cur)] :
            c \in {"error", "none", "rate"}}

\* how the history names a lookup
LookupKind(o) ==
    IF o.latest = "rate" \/ (o.latest = "none" /\ o.convert = "rate") THEN "rate"
    ELSE IF o.latest = "error" \/ o.convert = "error" THEN "error"
    ELSE "no data"

(***************************************************************************)
(* Calls of fetch_rates_for_currencies (lines 205-233) on their own.       *)
(***************************************************************************)
RateCodes == {"USD", "EUR", "GBP", "AED"}

\* a faulty variant: the try is around the loop, a failing lookup ends it
RemainingAfter_Break(todo, cur, fetched) ==
    IF fetched = NoneNum THEN {} ELSE todo \ {cur}

\* the codes the loop of line 212 still has to visit after the iteration
\* for cur: an exception is caught inside the iteration (lines 229-231)
RemainingAfter(todo, cur, fetched) == todo \ {cur}

RatesIdle ==
    rates_call = [pc |-> "idle", currencies |-> {}, todo |-> {},
                  rates |-> <<>>, log |-> <<>>]

RatesInit ==
    \E cs \in SUBSET RateCodes :
        /\ Cardinality(cs) <= MaxCurrencies
        /\ rates_call = [pc |-> "loop", currencies |-> cs, todo |-> cs,
                         rates |-> <<>>, log |-> <<>>]

\* one iteration of the loop (lines 212-232); set(currencies) is iterated
\* in no particular order; log is the history of the lookups
RatesLookup ==
    /\ rates_call.pc = "loop"
    /\ \E cur \in rates_call.todo : \E o \in LookupOutcomes(cur) :
         LET fetched == RateFetched(cur, o)
         IN  rates_call' = [rates_call EXCEPT
                 !.rates = (cur :> fetched) @@ rates_call.rates,
                 !.todo = RemainingAfter(rates_call.todo, cur, fetched),
                 !.log = Append(rates_call.log, [cur |-> cur, outcome |-> o])]
    /\ UNCHANGED <<parse_call, expand_call, pipe_vars>>

\* line 233
RatesReturn ==
    /\ rates_call.pc = "loop"
    /\ rates_call.todo = {}
    /\ rates_call' = [rates_call EXCEPT !.pc = "returned"]
    /\ UNCHANGED <<parse_call, expand_call, pipe_vars>>

PipelineInputs == {
    [item_name |-> <<"w", "a", "l", "l", " ", "c", "l", "o", "c", "k">>,
     min_inr |-> NoneNum, max_inr |-> NoneNum],
    [item_name |-> <<"w", "a", "l", "l", " ", "c", "l", "o", "c", "k">>,
     min_inr |-> Dec(500, 0), max_inr |-> Dec(1299, 0)],
    [item_name |-> <<" ", "S", "o", "f", "a", " ">>,
     min_inr |-> NoneNum, max_inr |-> Dec(1000, 0)],
    [item_name |-> <<" ">>,
     min_inr |-> Dec(2000, 0), max_inr |-> NoneNum] }

Environments == {
    [api_key |-> FALSE, llm |-> LLMFailure],
    [api_key |-> TRUE, llm |-> LLMFailure],
    [api_key |-> TRUE, llm |->
        [ok |-> TRUE, text |->
            <<"o", "a", "k", " ", "c", "l", "o", "c", "k", ",", " ", "w", "a",
              "l", "l", " ", "c", "l", "o", "c", "k", ";", " ">>]] }

(***************************************************************************)
(* product_search_pipeline.                                                *)
(***************************************************************************)
ParseIdle ==
    parse_call = [pc |-> "idle", price_str |-> <<>>, site_hint_currency |-> "",
                  result |-> [amount |-> NoneNum, cur |-> "", raw |-> <<>>]]

ExpandIdle ==
    expand_call = [pc |-> "idle", item_name |-> <<>>, max_variants |-> 0,
                   api_key |-> FALSE, reply |-> LLMFailure, result |-> <<>>]

PipelineInit(in, env, at) ==
    /\ pc = at
    /\ item_name = in.item_name
    /\ min_inr = in.min_inr
    /\ max_inr = in.max_inr
    /\ api_key = env.api_key
    /\ llm = env.llm
    /\ queries = <<>>
    /\ queries_to_use = <<>>
    /\ cell = 1
    /\ cellLog = <<>>
    /\ all_candidates = <<>>
    /\ clock = 0
    /\ candidates = <<>>
    /\ pending = {}
    /\ lookupLog = <<>>
    /\ rates = <<>>
    /\ rates_cache = <<>>
    /\ parsed = <<>>
    /\ results = <<>>

PipelineIdle ==
    PipelineInit([item_name |-> <<>>, min_inr |-> NoneNum, max_inr |-> NoneNum],
                 [api_key |-> FALSE, llm |-> LLMFailure], "idle")

Init ==
    /\ ParseIdle
    /\ ExpandIdle
    /\ RatesIdle
    /\ \E in \in PipelineInputs, env \in Environments :
           PipelineInit(in, env, "INIT")

\* the call (lines 429-430)
Start ==
    /\ pc = "INIT"
    /\ pc' = "EXPANDING"
    /\ UNCHANGED <<parse_call, expand_call, rates_call,
                   item_name, min_inr, max_inr,
                   api_key, llm, queries, queries_to_use, cell, cellLog,
                   all_candidates, clock, candidates, pending, lookupLog,
                   rates, rates_cache, parsed, results>>

\* lines 431-435
Expand ==
    /\ pc = "EXPANDING"
    /\ queries' = expand_queries(item_name, PIPELINE_MAX_VARIANTS, api_key, llm)
    /\ queries_to_use' = Take(queries', QUERIES_USED)
    /\ cell' = 1
    /\ pc' = "COLLECTING"
    /\ UNCHANGED <<parse_call, expand_call, rates_call,
                   item_name, min_inr, max_inr,
                   api_key, llm, cellLog, all_candidates, clock, candidates,
                   pending, lookupLog, rates, rates_cache, parsed, results>>

\* cells in loop order: (q1, Amazon), (q1, Flipkart), (q2, Amazon), ...
NumCells == 2 * Len(queries_to_use)

QueryOf(c) == (c + 1) \div 2

SiteOf(c) == IF c % 2 = 1 THEN "Amazon.in" ELSE "Flipkart"

Search(site, query, page) ==
    IF site = "Amazon.in" THEN search_amazon_in(query, page, MAX_RESULTS_PER_SITE)
    ELSE search_flipkart(query, page, MAX_RESULTS_PER_SITE)

\* a faulty variant: one try block around both sites of a query, so that a failing
\* Amazon search skips the query's Flipkart search
NextCell_SharedTry(c, failed) ==
    IF failed /\ SiteOf(c) = "Amazon.in" THEN c + 2 ELSE c + 1

\* where the loop goes after a cell: each site has its own try/except
NextCell(c, failed) == c + 1

\* a faulty variant: no except clause, the adapter's exception leaves the pipeline
PcAfterCell_Raise(failed) == IF failed THEN "RAISED" ELSE "COLLECTING"

\* the except clauses of lines 442-443 and 449-450 print a warning and the
\* loop goes on
PcAfterCell(failed) == "COLLECTING"

\* all_candidates after a cell (lines 441 and 448; nothing on an exception)
AfterCell(so_far, failed, found) == IF failed THEN so_far ELSE so_far \o found

\* one (query, site) cell of lines 436-450
CollectCell ==
    /\ pc = "COLLECTING"
    /\ cell <= NumCells
    /\ \E o \in CellOutcomes(SiteOf(cell)) :
         LET q == queries_to_use[QueryOf(cell)]
             found == IF o.failed THEN <<>> ELSE Search(SiteOf(cell), q, o.page)
         IN  /\ cellLog' = Append(cellLog,
                               [cell |-> cell, query |-> q, site |-> SiteOf(cell),
                                failed |-> o.failed, page |-> o.page,
                                found |-> found])
             /\ all_candidates' = AfterCell(all_candidates, o.failed, found)
             /\ cell' = NextCell(cell, o.failed)
             /\ pc' = PcAfterCell(o.failed)
    /\ UNCHANGED <<parse_call, expand_call, rates_call,
                   item_name, min_inr, max_inr,
                   api_key, llm, queries, queries_to_use, clock, candidates,
                   pending, lookupLog, rates, rates_cache, parsed, results>>

\* lines 452-467, and line 469 up to the first lookup
Aggregate ==
    /\ pc = "COLLECTING"
    /\ cell > NumCells
    /\ \E run \in DedupeRuns(all_candidates, 1, {}, <<>>, clock) :
         /\ candidates' = run.candidates
         /\ clock' = run.clock
         /\ pending' = CurrenciesNeeded(run.candidates)
    /\ rates' = <<>>
    /\ pc' = "CONVERTING"
    /\ UNCHANGED <<parse_call, expand_call, rates_call,
                   item_name, min_inr, max_inr,
                   api_key, llm, queries, queries_to_use, cell, cellLog,
                   all_candidates, lookupLog, rates_cache, parsed, results>>

\* one iteration of the loop of fetch_rates_for_currencies (lines 212-232);
\* set(currencies) is iterated in no particular order
LookupRate ==
    /\ pc = "CONVERTING"
    /\ \E cur \in pending : \E o \in LookupOutcomes(cur) :
         /\ rates' = (cur :> RateFetched(cur, o)) @@ rates
         /\ lookupLog' = (cur :> LookupKind(o)) @@ lookupLog
         /\ pending' = pending \ {cur}
    /\ UNCHANGED <<parse_call, expand_call, rates_call,
                   pc, item_name, min_inr, max_inr,
                   api_key, llm, queries, queries_to_use, cell, cellLog,
                   all_candidates, clock, candidates, rates_cache, parsed,
                   results>>

\* lines 471-474
Convert ==
    /\ pc = "CONVERTING"
    /\ pending = {}
    /\ rates_cache' = BuildRatesCache(rates)
    /\ parsed' = unify_results(candidates, rates_cache')
    /\ pc' = "RANKING"
    /\ UNCHANGED <<parse_call, expand_call, rates_call,
                   item_name, min_inr, max_inr,
                   api_key, llm, queries, queries_to_use, cell, cellLog,
                   all_candidates, clock, candidates, pending, lookupLog,
                   rates, results>>

\* lines 475-484
Rank ==
    /\ pc = "RANKING"
    /\ results' = SortedByPrice(apply_price_filter(parsed, min_inr, max_inr))
    /\ pc' = "DONE"
    /\ UNCHANGED <<parse_call, expand_call, rates_call,
                   item_name, min_inr, max_inr,
                   api_key, llm, queries, queries_to_use, cell, cellLog,
                   all_candidates, clock, candidates, pending, lookupLog,
                   rates, rates_cache, parsed>>

Next == Start \/ Expand \/ CollectCell \/ Aggregate \/ LookupRate \/ Convert \/ Rank

Spec == Init /\ [][Next]_vars

InitParse == ParseInit /\ ExpandIdle /\ RatesIdle /\ PipelineIdle

NextParse == ParseReturn

\* calls of extract_price_and_currency
SpecParse == InitParse /\ [][NextParse]_vars

InitExpand == ExpandInit /\ ParseIdle /\ RatesIdle /\ PipelineIdle

NextExpand == ExpandReturn

\* calls of expand_queries
SpecExpand == InitExpand /\ [][NextExpand]_vars

InitRates == RatesInit /\ ParseIdle /\ ExpandIdle /\ PipelineIdle

NextRates == RatesLookup \/ RatesReturn

\* calls of fetch_rates_for_currencies
SpecRates == InitRates /\ [][NextRates]_vars

(***************************************************************************)
(* Properties.                                                             *)
(***************************************************************************)
Collected == pc \in {"CONVERTING", "RANKING", "DONE"}

\* what cell i contributes when its search does not fail: the candidates of
\* the page the site served, for the cell's query
WouldContribute(i) ==
    Search(SiteOf(i), queries_to_use[QueryOf(i)], cellLog[i].page)

RECURSIVE ContributionsFrom(_)
\* the contributions of the cells i.. of the history, failing cells giving none
ContributionsFrom(i) ==
    IF i > Len(cellLog) THEN <<>>
    ELSE (IF cellLog[i].failed THEN <<>> ELSE WouldContribute(i))
         \o ContributionsFrom(i + 1)

\* C1: whatever cells fail, no exception leaves the pipeline, every cell of
\* the (query, site) matrix is searched in turn, and all_candidates holds,
\* cell by cell, nothing for a failing cell and for every other cell exactly
\* what that cell contributes when no cell fails.
C1_CellIsolation ==
    /\ pc # "RAISED"
    /\ Len(cellLog) = cell - 1
    /\ \A i \in 1..Len(cellLog) :
          /\ cellLog[i].cell = i
          /\ cellLog[i].failed => cellLog[i].found = <<>>
    /\ all_candidates = ContributionsFrom(1)
    /\ Collected => Len(cellLog) = NumCells

\* a run that ended although an Amazon cell failed, with the same query's
\* Flipkart cell and a later Amazon cell contributing
C1_Witness ==
    /\ pc = "DONE"
    /\ Len(cellLog) = 6
    /\ cellLog[1].failed /\ ~cellLog[2].failed /\ ~cellLog[3].failed
    /\ cellLog[4].failed
    /\ Len(all_candidates) = Len(WouldContribute(2)) + Len(WouldContribute(3))
                             + Len(ContributionsFrom(5))
    /\ WouldContribute(2) # <<>> /\ WouldContribute(3) # <<>>

InBounds(price) ==
    /\ price # NoneNum
    /\ (min_inr # NoneNum => DecLeq(min_inr, price))
    /\ (max_inr # NoneNum => DecLeq(price, max_inr))

\* C2: the ranked result holds exactly the candidates with a resolved
\* reference amount that lies within the supplied bounds, both inclusive;
\* a candidate without a resolved amount is never in it.
C2_FilterExact ==
    pc = "DONE" =>
        /\ \A i \in 1..Len(parsed) :
              (parsed[i] \in Range(results)) <=> InBounds(parsed[i].price_inr)
        /\ Range(results) \subseteq Range(parsed)
        /\ Len(results) = Cardinality({i \in 1..Len(parsed) :
                                          InBounds(parsed[i].price_inr)})
        /\ \A j \in 1..Len(results) : results[j].price_inr # NoneNum

\* a ranked run with both bounds, a result on the upper bound, one on the
\* lower bound, a candidate below, and one without a resolved amount
C2_Witness ==
    /\ pc = "DONE"
    /\ min_inr = Dec(500, 0) /\ max_inr = Dec(1299, 0)
    /\ \E j \in 1..Len(results) : results[j].price_inr = max_inr
    /\ \E j \in 1..Len(results) : results[j].price_inr = min_inr
    /\ \E i \in 1..Len(parsed) :
          parsed[i].price_inr # NoneNum /\ DecLess(parsed[i].price_inr, min_inr)
    /\ \E i \in 1..Len(parsed) : parsed[i].price_inr = NoneNum

\* position of a ranked result in the deduplicated candidate list
PosInCandidates(r) == CHOOSE k \in 1..Len(parsed) : parsed[k] = r

\* C3: the ranked results are in non-decreasing order of reference amount,
\* and results of equal amount keep the order of the deduplicated list.
C3_RankedStable ==
    pc = "DONE" =>
        \A i, j \in 1..Len(results) :
            i < j =>
                /\ DecLeq(results[i].price_inr, results[j].price_inr)
                /\ results[i].price_inr = results[j].price_inr
                      => PosInCandidates(results[i]) < PosInCandidates(results[j])

\* a ranking that had to move a candidate forward and that holds two
\* different candidates of equal amount
C3_Witness ==
    /\ pc = "DONE"
    /\ \E i, j \in 1..Len(results) :
          /\ i < j
          /\ results[i].price_inr = results[j].price_inr
          /\ results[i].url # results[j].url
    /\ \E i, j \in 1..Len(results) :
          i < j /\ PosInCandidates(results[j]) < PosInCandidates(results[i])

\* index of the first collected candidate with url u
FirstWithUrl(u) ==
    CHOOSE i \in 1..Len(all_candidates) :
        /\ all_candidates[i].url = u
        /\ \A j \in 1..(i - 1) : all_candidates[j].url # u

\* index of the first collected candidate equal to c
FirstSeen(c) ==
    CHOOSE i \in 1..Len(all_candidates) :
        all_candidates[i] = c /\ \A j \in 1..(i - 1) : all_candidates[j] # c

\* C4: after aggregation every non-empty url among the collected candidates
\* has exactly one record, which is the first collected candidate with that
\* url, and the unique list is in first-seen order.
C4_DedupByUrl ==
    Collected =>
        /\ \A u \in {all_candidates[i].url : i \in 1..Len(all_candidates)} \ {<<>>} :
              /\ Cardinality({k \in 1..Len(candidates) : candidates[k].url = u}) = 1
              /\ \A k \in 1..Len(candidates) :
                    candidates[k].url = u
                        => candidates[k] = all_candidates[FirstWithUrl(u)]
        /\ Range(candidates) \subseteq Range(all_candidates)
        /\ \A k, l \in 1..Len(candidates) :
              k < l => FirstSeen(candidates[k]) < FirstSeen(candidates[l])

\* a phrase is the item name, up to surrounding and repeated whitespace
IsName(phrase, name) == NormSpaces(phrase) = NormSpaces(name)

\* C5: for a non-blank item name and max_variants >= 1, on every path,
\* expand_queries returns pairwise distinct, non-empty phrases, at most
\* max_variants of them, among them the item name, which comes first on the
\* heuristic path.
C5_ExpandContract ==
    (/\ expand_call.pc = "returned"
     /\ Strip(expand_call.item_name) # <<>>
     /\ expand_call.max_variants >= 1) =>
        LET out == expand_call.result
            heuristic == ~(expand_call.api_key /\ expand_call.reply.ok)
        IN  /\ \A i, j \in 1..Len(out) : i # j => out[i] # out[j]
            /\ \A i \in 1..Len(out) : out[i] # <<>>
            /\ Len(out) <= expand_call.max_variants
            /\ \E i \in 1..Len(out) : IsName(out[i], expand_call.item_name)
            /\ heuristic => (out # <<>> /\ IsName(out[1], expand_call.item_name))

\* the symbols and codes of the table that occur in a price text
SymbolsIn(text) ==
    {k \in 1..Len(SYMBOL_TO_CURRENCY) : Contains(text, SYMBOL_TO_CURRENCY[k].sym)}

\* C6: a currency symbol or code in the price text decides the currency
\* whatever the domain hint; the hint is used only when the text holds none;
\* with neither the currency is null.  "rupee 1,299" is 1299.0 INR under
\* every hint, and "499" with the hint USD is 499.0 USD.
C6_CurrencyPriority ==
    parse_call.pc = "returned" =>
        LET text == parse_call.price_str
            hint == parse_call.site_hint_currency
            out == parse_call.result
        IN  /\ SymbolsIn(text) # {} =>
                  /\ \E k \in SymbolsIn(text) : out.cur = SYMBOL_TO_CURRENCY[k].code
                  /\ \A h \in Hints :
                        extract_price_and_currency(text, h).cur = out.cur
            /\ SymbolsIn(text) = {} => out.cur \in {"", hint}
            /\ (SymbolsIn(text) = {} /\ text # <<>> /\ hint # "") => out.cur = hint
            /\ (SymbolsIn(text) = {} /\ hint = "") => out.cur = ""
            /\ text = Rupee1299 => (out.amount = Dec(1299, 0) /\ out.cur = "INR")
            /\ (text = <<"4", "9", "9">> /\ hint = "USD")
                  => (out.amount = Dec(499, 0) /\ out.cur = "USD")

\* "rupee 1,299" parsed under a hint that names another currency
C6_Witness ==
    /\ parse_call.pc = "returned"
    /\ parse_call.price_str = Rupee1299
    /\ parse_call.site_hint_currency = "USD"
    /\ parse_call.result.cur = "INR"

UsableRate(cur) ==
    /\ cur \in DOMAIN rates_cache
    /\ rates_cache[cur] # NoneNum
    /\ rates_cache[cur].m # 0

\* C7: a normalized candidate has a reference amount exactly when it has an
\* amount and its currency is INR or has a usable rate in the cache.
C7_ReferenceAmountIff ==
    pc \in {"RANKING", "DONE"} =>
        \A i \in 1..Len(parsed) :
            (parsed[i].price_inr # NoneNum) <=>
                /\ parsed[i].amount # NoneNum
                /\ (parsed[i].currency = "INR" \/ UsableRate(parsed[i].currency))

\* C8: in the returned rate cache INR maps to 1.0, every other code in it
\* had a lookup that gave a rate and maps to that rate, and a code whose
\* lookup failed or gave no data is absent.
C8_RateCache ==
    pc \in {"RANKING", "DONE"} =>
        /\ "INR" \in DOMAIN rates_cache
        /\ rates_cache["INR"] = One
        /\ \A cur \in DOMAIN rates_cache \ {"INR"} :
              /\ cur \in DOMAIN lookupLog
              /\ lookupLog[cur] = "rate"
              /\ rates_cache[cur] = ServiceRate(cur)
        /\ \A cur \in DOMAIN lookupLog :
              lookupLog[cur] # "rate" => cur \notin DOMAIN rates_cache

\* a returned cache built from one lookup that gave a rate and one that did
\* not
C8_Witness ==
    /\ pc = "DONE"
    /\ \E cur \in DOMAIN lookupLog : lookupLog[cur] = "rate"
    /\ \E cur \in DOMAIN lookupLog :
          lookupLog[cur] # "rate" /\ cur \notin DOMAIN rates_cache
    /\ rates_cache["INR"] = One

StageSteps == {
    <<"INIT", "EXPANDING">>, <<"EXPANDING", "COLLECTING">>,
    <<"COLLECTING", "CONVERTING">>, <<"CONVERTING", "RANKING">>,
    <<"RANKING", "DONE">> }

IsList(x) == DOMAIN x = 1..Len(x)

\* the document of lines 479-484
DocumentComplete ==
    /\ IsList(queries_to_use)
    /\ IsList(candidates)
    /\ "INR" \in DOMAIN rates_cache
    /\ IsList(results)
    /\ (\A i \in 1..Len(parsed) : ~InBounds(parsed[i].price_inr)) => results = <<>>

\* the stages a run still has to leave
StagesLeft ==
    CASE pc = "INIT" -> 5 [] pc = "EXPANDING" -> 4 [] pc = "COLLECTING" -> 3
      [] pc = "CONVERTING" -> 2 [] pc = "RANKING" -> 1 [] OTHER -> 0

\* the steps a run can still take, at most: every step of the pipeline
\* leaves a stage, searches a cell or looks up a rate
StepsLeft ==
    100 * StagesLeft
    + (IF pc = "COLLECTING" THEN NumCells + 1 - cell ELSE 0)
    + Cardinality(pending)

\* the guard of some step of the pipeline holds: of Start, Expand,
\* CollectCell, Aggregate, LookupRate, Convert or Rank
StepReady ==
    \/ pc = "INIT"
    \/ pc = "EXPANDING"
    \/ (pc = "COLLECTING" /\ cell <= NumCells /\ CellOutcomes(SiteOf(cell)) # {})
    \/ (pc = "COLLECTING" /\ cell > NumCells)
    \/ (pc = "CONVERTING" /\ pending # {}
            /\ \A cur \in pending : LookupOutcomes(cur) # {})
    \/ (pc = "CONVERTING" /\ pending = {})
    \/ pc = "RANKING"

\* the run is scheduled: it does not stop while one of its steps is ready
\* (weak fairness of the steps of the pipeline, with StepReady as their
\* enabling condition)
RunScheduled == []<>(~StepReady) \/ []<><<TRUE>>_vars

\* C9: a run moves through expansion, collection, conversion and ranking in
\* that order and reaches DONE whatever cells and rate lookups fail: until
\* DONE some step can always be taken (no failure stops the run), every step
\* uses up one of finitely many steps left, and a scheduled run that started
\* at INIT reaches DONE.  At DONE the document is complete, with an empty
\* ranked list when no candidate survives the filter.
C9_RunCompletes ==
    /\ [][/\ pc' # pc => <<pc, pc'>> \in StageSteps
          /\ StepsLeft' < StepsLeft]_vars
    /\ [](StepsLeft >= 0)
    /\ [](pc # "DONE" => StepReady)
    /\ [](pc = "DONE" => DocumentComplete)
    /\ RunScheduled => (pc = "INIT" ~> pc = "DONE")

\* a finished run in which a cell and a rate lookup failed and no candidate
\* survived the filter
C9_Witness ==
    /\ pc = "DONE"
    /\ \E i \in 1..Len(cellLog) : cellLog[i].failed
    /\ \E cur \in DOMAIN lookupLog : lookupLog[cur] # "rate"
    /\ candidates # <<>>
    /\ results = <<>>

\* C10: a run whose item name is empty or only whitespace ends at once in
\* FAILED: it expands no query, searches no cell and looks up no rate.
C10_BlankNameFails ==
    Strip(item_name) = <<>> =>
        /\ pc \in {"INIT", "FAILED"}
        /\ queries = <<>>
        /\ cellLog = <<>>
        /\ DOMAIN lookupLog = {}

\* two collected candidates are the same product: the same non-empty url,
\* or no url on either and the same non-empty title
TrueMatch(x, y) ==
    \/ (x.url # <<>> /\ x.url = y.url)
    \/ (x.url = <<>> /\ y.url = <<>> /\ x.title # <<>> /\ x.title = y.title)

\* the collected candidate at j matches no earlier one
FirstOfItsKind(j) ==
    \A i \in 1..(j - 1) : ~TrueMatch(all_candidates[i], all_candidates[j])

RECURSIVE FirstsFrom(_)
\* the collected candidates from j on that match no earlier one, in order
FirstsFrom(j) ==
    IF j > Len(all_candidates) THEN <<>>
    ELSE (IF FirstOfItsKind(j) THEN <<all_candidates[j]>> ELSE <<>>)
         \o FirstsFrom(j + 1)

\* C11: aggregation merges two collected candidates only when they have the
\* same non-empty url or, both without url, the same non-empty title: the
\* unique list holds one record for every collected candidate that matches
\* no earlier one, so candidates with neither url nor title all stay, also
\* at equal clock readings, and a url never merges with a title.
C11_MergeOnlyOnMatch ==
    Collected => candidates = FirstsFrom(1)

\* a raw candidate can be identified: its url or its title is not empty
HasIdentity(c) == c.url # <<>> \/ c.title # <<>>

\* C12: every raw candidate a site adapter emits has a non-empty url or a
\* non-empty title, a result element with neither being discarded; an
\* element with a url or a title and no price is still emitted; and an
\* adapter emits at most max_results candidates.
C12_EmittedHaveIdentity ==
    \A i \in 1..Len(cellLog) :
        LET found == cellLog[i].found
            top == Take(cellLog[i].page, MAX_RESULTS_PER_SITE)
        IN  /\ \A k \in 1..Len(found) : HasIdentity(found[k])
            /\ Len(found) <= MAX_RESULTS_PER_SITE
            /\ (~cellLog[i].failed /\ cellLog[i].site = "Amazon.in") =>
                  \A k \in 1..Len(top) :
                      (top[k].title # <<>> \/ top[k].href # <<>>) =>
                          AmazonCandidate(cellLog[i].query, top[k])
                              \in Range(found)

\* the lookup gave a multiplier: from /latest, or from /convert after
\* /latest had no INR rate
LookupSucceeds(o) ==
    o.latest = "rate" \/ (o.latest = "none" /\ o.convert = "rate")

\* C13: in fetch_rates_for_currencies a code is resolved to the multiplier
\* its lookup gave exactly when its own lookup succeeds and is unresolved
\* otherwise; what is recorded for a code never changes afterwards; and the
\* loop visits every code once, whichever lookups fail.
C13_LookupsIndependent ==
    /\ [](\A k \in 1..Len(rates_call.log) :
            LET cur == rates_call.log[k].cur
                o == rates_call.log[k].outcome
            IN  /\ cur \in DOMAIN rates_call.rates
                /\ LookupSucceeds(o) <=> rates_call.rates[cur] # NoneNum
                /\ LookupSucceeds(o) => rates_call.rates[cur] = o.rate
                /\ \A l \in 1..Len(rates_call.log) :
                      rates_call.log[l].cur = cur => l = k)
    /\ [](DOMAIN rates_call.rates =
            {rates_call.log[k].cur : k \in 1..Len(rates_call.log)})
    /\ [](rates_call.pc = "loop" =>
            rates_call.todo = rates_call.currencies \ DOMAIN rates_call.rates)
    /\ [](rates_call.pc = "returned" =>
            DOMAIN rates_call.rates = rates_call.currencies)
    /\ [][\A cur \in DOMAIN rates_call.rates :
             /\ cur \in DOMAIN rates_call.rates'
             /\ rates_call.rates'[cur] = rates_call.rates[cur]]_vars

\* a returned call for three codes whose first lookup raised, whose second
\* had no data on either request, and whose third gave a rate
C13_Witness ==
    /\ rates_call.pc = "returned"
    /\ Len(rates_call.log) = 3
    /\ rates_call.log[1].outcome.latest = "error"
    /\ rates_call.log[2].outcome.latest = "none"
    /\ rates_call.log[2].outcome.convert = "none"
    /\ LookupSucceeds(rates_call.log[3].outcome)
    /\ rates_call.rates[rates_call.log[1].cur] = NoneNum
    /\ rates_call.rates[rates_call.log[2].cur] = NoneNum
    /\ rates_call.rates[rates_call.log[3].cur]
           = ServiceRate(rates_call.log[3].cur)

====
